---- MODULE Spec2Model ----
(***************************************************************************)
(* Model of src/flight_analysis.py: the four data-preparation functions    *)
(* validate_data, display_counts, compute_combo_chart and                  *)
(* prepare_geospatial_data, each an action on the caller's table `df`.     *)
(*                                                                         *)
(* A table (pandas DataFrame) is a record [cols, rows]: cols is the set of *)
(* column names and rows a sequence of functions from cols to cell values. *)
(* Every input cell is an integer; NaN is the missing value.  Key columns *)
(* hold integer identifiers (carrier 1, airport 2, ...).                   *)
(***************************************************************************)
EXTENDS Integers, Sequences, FiniteSets, TLC

VARIABLES
    df,         \* the table object the caller holds and passes to every call
    df0,        \* the same table as it was before the first call (history)
    coords_df,  \* the coordinate lookup table (prepare_geospatial_data)
    last,       \* the latest call: [op, args, out]
    prev,       \* the compute_combo_chart call before the latest one
    ncalls,     \* number of compute_combo_chart calls made so far
    sort_kind   \* how this build's sort orders rows with equal keys

vars == <<df, df0, coords_df, last, prev, ncalls, sort_kind>>

\* The pandas missing value (NaN / None); outside every value domain below.
NaN == -9999

isnull(v) == v = NaN

NoCall == [op |-> "none"]

EmptyTable == [cols |-> {}, rows |-> <<>>]

\* The elements of a sequence.
Range(s) == {s[i] : i \in 1..Len(s)}

\* All sequences over S of length at most n.
SeqsUpTo(S, n) == UNION {[1..k -> S] : k \in 0..n}

\* All tables with column set C, at most n rows, and column c's cells drawn
\* from Dom[c].
TablesOver(C, Dom, n) ==
    {[cols |-> C, rows |-> r] :
        r \in SeqsUpTo({f \in [C -> UNION {Dom[c] : c \in C}] :
                           \A c \in C : f[c] \in Dom[c]}, n)}

\* Series.sum() / DataFrame.sum(): the sum of a sequence of cells, missing
\* values skipped (skipna=True), 0 for an empty or all-missing sequence.
RECURSIVE nansum(_)
nansum(s) ==
    IF s = <<>> THEN 0
    ELSE (IF isnull(Head(s)) THEN 0 ELSE Head(s)) + nansum(Tail(s))

\* df[col] as a sequence of cells.
Column(T, c) == [i \in 1..Len(T.rows) |-> T.rows[i][c]]

(***************************************************************************)
(* validate_data                                                           *)
(***************************************************************************)

MaxRowsV == 2      \* rows of a table handed to validate_data
MaxReq == 2        \* length of required_cols

ValidateCols == {"year", "arr_delay"}
RequiredNames == {"year", "arr_delay", "carrier"}
ValidateCells == [c \in ValidateCols |-> {NaN, 1}]

ValidateTables ==
    UNION {TablesOver(C, ValidateCells, MaxRowsV) : C \in SUBSET ValidateCols}

RequiredSeqs == SeqsUpTo(RequiredNames, MaxReq)

\* [col for col in required_cols if col not in df.columns]
missing_cols(T, required_cols) ==
    SelectSeq(required_cols, LAMBDA col : col \notin T.cols)

\* [col for col in required_cols if col in df.columns]
present_cols(T, required_cols) ==
    SelectSeq(required_cols, LAMBDA col : col \in T.cols)

\* df[present_cols].isnull().sum() at column col
isnull_sum(T, col) ==
    Cardinality({i \in 1..Len(T.rows) : isnull(T.rows[i][col])})

\* missing_vals[missing_vals > 0].to_dict()
missing_vals_dict(T, required_cols) ==
    LET present == present_cols(T, required_cols)
    IN  [col \in {c \in Range(present) : isnull_sum(T, c) > 0}
            |-> isnull_sum(T, col)]

validate_data_SkipsValueCheck(T, required_cols) ==
    [missing_columns |-> missing_cols(T, required_cols),
     missing_values  |-> missing_vals_dict(T, required_cols),
     is_valid        |-> missing_cols(T, required_cols) = <<>>]

validate_data_FirstMissingOnly(T, required_cols) ==
    LET mc == missing_cols(T, required_cols)
    IN  [missing_columns |-> IF mc = <<>> THEN <<>> ELSE <<Head(mc)>>,
         missing_values  |-> missing_vals_dict(T, required_cols),
         is_valid        |-> mc = <<>>
                             /\ DOMAIN missing_vals_dict(T, required_cols) = {}]

validate_data(T, required_cols) ==
    LET results0 == [missing_columns |-> <<>>,
                     missing_values  |-> <<>>,
                     is_valid        |-> TRUE]
        mc == missing_cols(T, required_cols)
        results1 == IF mc # <<>>
                    THEN [results0 EXCEPT !.missing_columns = mc,
                                          !.is_valid = FALSE]
                    ELSE results0
        results2 == [results1 EXCEPT
                        !.missing_values = missing_vals_dict(T, required_cols)]
    IN  IF DOMAIN results2.missing_values # {}
        THEN [results2 EXCEPT !.is_valid = FALSE]
        ELSE results2

InitValidate ==
    /\ df \in ValidateTables
    /\ df0 = df
    /\ coords_df = EmptyTable
    /\ last = NoCall
    /\ prev = NoCall
    /\ ncalls = 0
    /\ sort_kind = "stable"

\* report = validate_data(df, required_cols); the table is only read.
ValidateData(required_cols) ==
    /\ last' = [op   |-> "validate_data",
                args |-> [required_cols |-> required_cols],
                out  |-> validate_data(df, required_cols)]
    /\ UNCHANGED <<df, df0, coords_df, prev, ncalls, sort_kind>>

NextValidate == \E required_cols \in RequiredSeqs : ValidateData(required_cols)

SpecValidate == InitValidate /\ [][NextValidate]_vars

(***************************************************************************)
(* display_counts                                                          *)
(***************************************************************************)

MaxRowsC == 2       \* rows of a table handed to display_counts
MaxRowsDropped == 1 \* rows of the tables that lack one of the columns
Scale == 2          \* count cells are fixed-point: cell v stands for v / Scale

\* The default column names of display_counts.
year_col == "year"
month_col == "month"
airport_col == "airport_name"
cancelled_col == "arr_cancelled"
diverted_col == "arr_diverted"

CountCols == {year_col, month_col, airport_col, cancelled_col, diverted_col}

\* (year, airport, month) keys: the first one and the three keys that differ
\* from it in exactly one place.
KeyTriples == {<<2023, 1, 1>>, <<2024, 1, 1>>, <<2023, 2, 1>>, <<2023, 1, 2>>}

\* Count cells: missing, -3/Scale, 1/Scale.
CountCells == {NaN, -3, 1}

CountRows ==
    {[c \in CountCols |->
        CASE c = year_col      -> k[1]
          [] c = airport_col   -> k[2]
          [] c = month_col     -> k[3]
          [] c = cancelled_col -> a
          [] OTHER             -> b] :
     k \in KeyTriples, a \in CountCells, b \in CountCells}

\* The table T without column c.
DropColumn(T, c) ==
    [cols |-> T.cols \ {c},
     rows |-> [i \in 1..Len(T.rows) |->
                  [x \in T.cols \ {c} |-> T.rows[i][x]]]]

CountTables ==
    {[cols |-> CountCols, rows |-> r] : r \in SeqsUpTo(CountRows, MaxRowsC)}
    \cup {DropColumn([cols |-> CountCols, rows |-> r], c) :
            r \in SeqsUpTo(CountRows, MaxRowsDropped),
            c \in {year_col, cancelled_col}}

\* Python int() of the fixed-point number x / Scale: truncation toward zero.
py_int(x) == IF x >= 0 THEN x \div Scale ELSE -((-x) \div Scale)

\* (df[year_col] == year) & (df[airport_col] == airport) & (df[month_col] == month)
\* at one row; a missing cell equals nothing.
filter_mask_IgnoresMonth(row, year, airport, month) ==
    /\ ~isnull(row[year_col]) /\ row[year_col] = year
    /\ ~isnull(row[airport_col]) /\ row[airport_col] = airport

filter_mask(row, year, airport, month) ==
    /\ ~isnull(row[year_col]) /\ row[year_col] = year
    /\ ~isnull(row[airport_col]) /\ row[airport_col] = airport
    /\ ~isnull(row[month_col]) /\ row[month_col] = month

\* The first of the columns cs (in order) that the table lacks, as a
\* sequence of at most one name.
FirstAbsent(T, cs) ==
    LET absent == SelectSeq(cs, LAMBDA c : c \notin T.cols)
    IN  IF absent = <<>> THEN <<>> ELSE <<Head(absent)>>

KeyError(names) == [status |-> "KeyError", missing |-> names]

display_counts_SumsUnfiltered(T, year, airport, month) ==
    LET filtered == SelectSeq(T.rows,
                        LAMBDA row : filter_mask(row, year, airport, month))
    IN  IF FirstAbsent(T, <<year_col, airport_col, month_col>>) # <<>>
        THEN KeyError(FirstAbsent(T, <<year_col, airport_col, month_col>>))
        ELSE IF filtered = <<>>
        THEN [status |-> "ok", cancelled |-> 0, diverted |-> 0]
        ELSE IF FirstAbsent(T, <<cancelled_col, diverted_col>>) # <<>>
        THEN KeyError(FirstAbsent(T, <<cancelled_col, diverted_col>>))
        ELSE [status    |-> "ok",
              cancelled |-> py_int(nansum(Column(T, cancelled_col))),
              diverted  |-> py_int(nansum(Column(T, diverted_col)))]

\* The counts display_counts puts into its panel, or the KeyError a column
\* lookup raises.
display_counts(T, year, airport, month) ==
    IF FirstAbsent(T, <<year_col, airport_col, month_col>>) # <<>>
    THEN KeyError(FirstAbsent(T, <<year_col, airport_col, month_col>>))
    ELSE
    LET filtered_df ==
            [cols |-> T.cols,
             rows |-> SelectSeq(T.rows,
                        LAMBDA row : filter_mask(row, year, airport, month))]
    IN  IF filtered_df.rows = <<>>
        THEN [status |-> "ok", cancelled |-> 0, diverted |-> 0]
        ELSE IF FirstAbsent(T, <<cancelled_col, diverted_col>>) # <<>>
        THEN KeyError(FirstAbsent(T, <<cancelled_col, diverted_col>>))
        ELSE [status    |-> "ok",
              cancelled |-> py_int(nansum(Column(filtered_df, cancelled_col))),
              diverted  |-> py_int(nansum(Column(filtered_df, diverted_col)))]

InitCounts ==
    /\ df \in CountTables
    /\ df0 = df
    /\ coords_df = EmptyTable
    /\ last = NoCall
    /\ prev = NoCall
    /\ ncalls = 0
    /\ sort_kind = "stable"

\* display_counts(df, year, airport, month); the table is only read.
DisplayCounts(year, airport, month) ==
    /\ last' = [op   |-> "display_counts",
                args |-> [year |-> year, airport |-> airport, month |-> month],
                out  |-> display_counts(df, year, airport, month)]
    /\ UNCHANGED <<df, df0, coords_df, prev, ncalls, sort_kind>>

NextCounts == \E k \in KeyTriples : DisplayCounts(k[1], k[2], k[3])

SpecCounts == InitCounts /\ [][NextCounts]_vars

(***************************************************************************)
(* prepare_geospatial_data                                                 *)
(***************************************************************************)

MaxRowsG == 2      \* rows of a table handed to prepare_geospatial_data
MaxCoords == 2     \* rows of the coordinate table

\* The default column names of prepare_geospatial_data.
geo_airport_col == "airport"
iata_col == "IATA Code"

GeoCols == {geo_airport_col, "arr_delay", "weather_delay"}

GeoCells ==
    [c \in GeoCols |->
        CASE c = geo_airport_col -> {1, 2, NaN}
          [] c = "arr_delay"     -> {0, 3}
          [] OTHER               -> {1}]

GeoTables == TablesOver(GeoCols, GeoCells, MaxRowsG)

CoordCols == {iata_col, "longitude", "latitude"}

CoordCells ==
    [c \in CoordCols |->
        CASE c = iata_col     -> {1, 2}
          [] c = "longitude"  -> {10, 20}
          [] OTHER            -> {5}]

CoordTables == TablesOver(CoordCols, CoordCells, MaxCoords)

DelayColsChoices ==
    {<<"arr_delay">>, <<"arr_delay", "weather_delay">>, <<"security_delay">>}

\* The sorted sequence of the integers in S (groupby's sort=True key order).
RECURSIVE SortedSeq(_)
SortedSeq(S) ==
    IF S = {} THEN <<>>
    ELSE LET m == CHOOSE x \in S : \A y \in S : x <= y
         IN  <<m>> \o SortedSeq(S \ {m})

\* df.groupby(by)[delay_cols].sum().reset_index(): one row per distinct
\* non-missing value of column `by` (dropna=True), in key order, holding the
\* key and the per-group sum of every column of delay_cols.
groupby_sum(T, by, delay_cols) ==
    LET keys == SortedSeq({T.rows[i][by] : i \in 1..Len(T.rows)} \ {NaN})
    IN  [g \in 1..Len(keys) |->
            [c \in {by} \cup Range(delay_cols) |->
                IF c = by THEN keys[g]
                ELSE nansum(Column(
                        [cols |-> T.cols,
                         rows |-> SelectSeq(T.rows,
                                     LAMBDA row : row[by] = keys[g])], c))]]

\* grouped.mean(axis=1): the mean of the summed delay columns of one grouped
\* row, kept exact as the pair <<sum, number of columns>>.
mean_axis1(grouped_row, delay_cols) ==
    <<nansum([i \in 1..Len(delay_cols) |-> grouped_row[delay_cols[i]]]),
      Len(delay_cols)>>

\* One merged row: the grouped row g with avg_delay_cause, joined with the
\* coordinate row r.
JoinRow(g, avg, r, coords) ==
    [c \in (DOMAIN g) \cup {"avg_delay_cause"} \cup coords.cols |->
        IF c = "avg_delay_cause" THEN avg
        ELSE IF c \in DOMAIN g THEN g[c]
        ELSE r[c]]

\* A coordinate row with every field missing.
NullCoords(coords) == [c \in coords.cols |-> NaN]

\* pd.merge(grouped, coords_df, left_on=..., right_on=..., how=...): for
\* each grouped row in order, one merged row per coordinate row with the same
\* key, in the coordinate table's order.
RECURSIVE merge_inner(_, _, _, _)
merge_inner(grouped, avgs, coords, left_on) ==
    IF grouped = <<>> THEN <<>>
    ELSE LET g == Head(grouped)
             matches == SelectSeq(coords.rows,
                            LAMBDA r : r[iata_col] = g[left_on])
         IN  [i \in 1..Len(matches) |->
                  JoinRow(g, Head(avgs), matches[i], coords)]
             \o merge_inner(Tail(grouped), Tail(avgs), coords, left_on)

\* how='left': a grouped row with no match is kept once, with missing
\* coordinate fields.
RECURSIVE merge_left(_, _, _, _)
merge_left(grouped, avgs, coords, left_on) ==
    IF grouped = <<>> THEN <<>>
    ELSE LET g == Head(grouped)
             matches == SelectSeq(coords.rows,
                            LAMBDA r : r[iata_col] = g[left_on])
             joined == IF matches = <<>>
                       THEN <<JoinRow(g, Head(avgs), NullCoords(coords),
                                      coords)>>
                       ELSE [i \in 1..Len(matches) |->
                               JoinRow(g, Head(avgs), matches[i], coords)]
         IN  joined \o merge_left(Tail(grouped), Tail(avgs), coords, left_on)

prepare_geospatial_data(T, coords, delay_cols) ==
    IF geo_airport_col \notin T.cols
    THEN KeyError(<<geo_airport_col>>)
    ELSE IF missing_cols(T, delay_cols) # <<>>
    THEN KeyError(missing_cols(T, delay_cols))
    ELSE IF iata_col \notin coords.cols
    THEN KeyError(<<iata_col>>)
    ELSE
    LET grouped == groupby_sum(T, geo_airport_col, delay_cols)
        avgs == [g \in 1..Len(grouped) |-> mean_axis1(grouped[g], delay_cols)]
    IN  [status |-> "ok",
         rows   |-> merge_left(grouped, avgs, coords, geo_airport_col)]

InitGeo ==
    /\ df \in GeoTables
    /\ df0 = df
    /\ coords_df \in CoordTables
    /\ last = NoCall
    /\ prev = NoCall
    /\ ncalls = 0
    /\ sort_kind = "stable"

\* merged = prepare_geospatial_data(df, coords_df, delay_cols); both tables
\* are only read.
PrepareGeospatialData(delay_cols) ==
    /\ last' = [op   |-> "prepare_geospatial_data",
                args |-> [delay_cols |-> delay_cols],
                out  |-> prepare_geospatial_data(df, coords_df, delay_cols)]
    /\ UNCHANGED <<df, df0, coords_df, prev, ncalls, sort_kind>>

NextGeo == \E delay_cols \in DelayColsChoices : PrepareGeospatialData(delay_cols)

SpecGeo == InitGeo /\ [][NextGeo]_vars

(***************************************************************************)
(* compute_combo_chart                                                     *)
(***************************************************************************)

MaxRowsR == 2      \* rows of a small table handed to compute_combo_chart
MaxCalls == 2      \* calls of compute_combo_chart on the one table object
TopN == 10         \* .head(10)

\* entity -> (name_col, code_col), as the dashboard passes it.
entity_options ==
    [Airlines |-> <<"carrier_name", "carrier">>,
     Airports |-> <<"airport_name", "airport">>]

RankColsPlain == {"carrier", "carrier_name", "carrier_delay", "weather_delay"}

RankCells ==
    [c \in RankColsPlain \cup {"total_delay"} |->
        CASE c = "carrier"       -> {1, 2, NaN}
          [] c = "carrier_name"  -> {1}
          [] c = "carrier_delay" -> {0, 1}
          [] c = "weather_delay" -> {1}
          [] OTHER               -> {0, 5}]

\* A table with one row per carrier 1..n, delays alternating 0 and 1.
ManyCarriers(n) ==
    [cols |-> RankColsPlain,
     rows |-> [i \in 1..n |->
                 [c \in RankColsPlain |->
                     CASE c = "carrier"       -> i
                       [] c = "carrier_name"  -> i
                       [] c = "carrier_delay" -> i % 2
                       [] OTHER               -> 1]]]

\* Small tables with and without a total_delay column of their own, and one
\* table with more carriers than .head() keeps.
RankTables ==
    TablesOver(RankColsPlain, RankCells, MaxRowsR)
    \cup TablesOver(RankColsPlain \cup {"total_delay"}, RankCells, MaxRowsR)
    \cup {ManyCarriers(TopN + 1)}

DelayFactorsChoices ==
    {<<"carrier_delay", "weather_delay">>,
     <<"carrier_delay", "total_delay">>,
     <<"carrier_delay", "security_delay">>}

FactorChoices == {"weather_delay", "total_delay"}

\* The top-N a caller wants: the default and a smaller one.
TopNChoices == {TopN, 2}

\* How the build's default sort (kind='quicksort') orders equal keys: as a
\* stable sort would, or not.
SortKinds == {"stable", "unstable"}

\* df["total_delay"] = df[delay_factors].sum(axis=1): the table with column
\* total_delay added or overwritten, each cell the row's sum over delay_factors.
assign_total_delay(T, delay_factors) ==
    [cols |-> T.cols \cup {"total_delay"},
     rows |-> [i \in 1..Len(T.rows) |->
                 [c \in T.cols \cup {"total_delay"} |->
                     IF c = "total_delay"
                     THEN nansum([k \in 1..Len(delay_factors) |->
                                     T.rows[i][delay_factors[k]]])
                     ELSE T.rows[i][c]]]]

\* The distinct <<code, name>> key tuples of the rows, rows with a missing
\* key left out (dropna=True), in ascending key order (sort=True).
RECURSIVE SortedKeys(_)
SortedKeys(S) ==
    IF S = {} THEN <<>>
    ELSE LET m == CHOOSE x \in S : \A y \in S :
                      x[1] < y[1] \/ (x[1] = y[1] /\ x[2] <= y[2])
         IN  <<m>> \o SortedKeys(S \ {m})

group_keys(T, code_col, name_col) ==
    SortedKeys({<<T.rows[i][code_col], T.rows[i][name_col]>> :
                   i \in {j \in 1..Len(T.rows) :
                            /\ ~isnull(T.rows[j][code_col])
                            /\ ~isnull(T.rows[j][name_col])}})

\* df.groupby([code_col, name_col]).sum().reset_index()
groupby_keys_sum(T, code_col, name_col) ==
    LET keys == group_keys(T, code_col, name_col)
    IN  [g \in 1..Len(keys) |->
            [c \in T.cols |->
                IF c = code_col THEN keys[g][1]
                ELSE IF c = name_col THEN keys[g][2]
                ELSE nansum(Column(
                        [cols |-> T.cols,
                         rows |-> SelectSeq(T.rows,
                                     LAMBDA row : /\ row[code_col] = keys[g][1]
                                                  /\ row[name_col] = keys[g][2])],
                        c))]]

\* grouped.sort_values(by, ascending=False): the rows by descending `by`.
\* Rows with equal `by` keep their order under a stable sort; the default
\* kind is not stable, and `kind` tells what this build does with them.
RECURSIVE sort_values_desc(_, _, _, _)
sort_values_desc(rows, I, by, kind) ==
    IF I = {} THEN <<>>
    ELSE LET top == {i \in I : \A j \in I : rows[i][by] >= rows[j][by]}
             i == IF kind = "stable"
                  THEN CHOOSE x \in top : \A y \in top : x <= y
                  ELSE CHOOSE x \in top : \A y \in top : x >= y
         IN  <<rows[i]>> \o sort_values_desc(rows, I \ {i}, by, kind)

\* .head(n)
head(rows, n) == SubSeq(rows, 1, IF Len(rows) < n THEN Len(rows) ELSE n)

\* The ranked table top10 that compute_combo_chart charts, or the KeyError
\* a column lookup raises.
compute_combo_chart(T, entity, factor, delay_factors, kind) ==
    LET name_col == entity_options[entity][1]
        code_col == entity_options[entity][2]
        T1 == assign_total_delay(T, delay_factors)
    IN  IF missing_cols(T, delay_factors) # <<>>
        THEN KeyError(missing_cols(T, delay_factors))
        ELSE IF FirstAbsent(T1, <<code_col, name_col>>) # <<>>
        THEN KeyError(FirstAbsent(T1, <<code_col, name_col>>))
        ELSE
        LET grouped == groupby_keys_sum(T1, code_col, name_col)
            top10 == head(sort_values_desc(grouped, 1..Len(grouped),
                                           "total_delay", kind), TopN)
        IN  [status |-> "ok", rows |-> top10]

\* The caller's table after compute_combo_chart(df, ...): total_delay is
\* written onto it unless the lookup of delay_factors raised first.
df_after_compute_combo_chart(T, delay_factors) ==
    IF missing_cols(T, delay_factors) # <<>>
    THEN T
    ELSE assign_total_delay(T, delay_factors)

InitRank ==
    /\ df \in RankTables
    /\ df0 = df
    /\ coords_df = EmptyTable
    /\ last = NoCall
    /\ prev = NoCall
    /\ ncalls = 0
    /\ sort_kind \in SortKinds

\* compute_combo_chart(df, entity, factor, entity_options, delay_factors).
\* top_n is the top-N the caller wants; the function takes no such argument.
ComputeComboChart(entity, factor, delay_factors, top_n) ==
    /\ ncalls < MaxCalls
    /\ last' = [op   |-> "compute_combo_chart",
                args |-> [entity |-> entity, factor |-> factor,
                          delay_factors |-> delay_factors, top_n |-> top_n],
                out  |-> compute_combo_chart(df, entity, factor,
                                             delay_factors, sort_kind)]
    /\ df' = df_after_compute_combo_chart(df, delay_factors)
    /\ prev' = last
    /\ ncalls' = ncalls + 1
    /\ UNCHANGED <<df0, coords_df, sort_kind>>

NextRank ==
    \E entity \in DOMAIN entity_options, factor \in FactorChoices,
       delay_factors \in DelayFactorsChoices, top_n \in TopNChoices :
        ComputeComboChart(entity, factor, delay_factors, top_n)

SpecRank == InitRank /\ [][NextRank]_vars

(***************************************************************************)
(* Claims about validate_data (checked under SpecValidate)                 *)
(***************************************************************************)

ValidateCalled == last.op = "validate_data"

\* Some required column is absent from the table.
SomeRequiredAbsent(T, R) == \E i \in 1..Len(R) : R[i] \notin T.cols

\* Some required column that is present holds a missing value in some row.
SomeRequiredHasNull(T, R) ==
    \E i \in 1..Len(R) :
        /\ R[i] \in T.cols
        /\ \E k \in 1..Len(T.rows) : T.rows[k][R[i]] = NaN

\* C2: is_valid is false iff a required column is absent or a present
\* required column has at least one missing value; equivalently is_valid is
\* true exactly when missing_columns and missing_values are both empty.
C2_IsValidIff ==
    ValidateCalled =>
        LET R == last.args.required_cols
            report == last.out
        IN  /\ (report.is_valid = FALSE)
                   <=> (SomeRequiredAbsent(df, R) \/ SomeRequiredHasNull(df, R))
            /\ report.is_valid
                   <=> (Len(report.missing_columns) = 0
                        /\ Cardinality(DOMAIN report.missing_values) = 0)

\* C2 witness: a call on a table in which every required column is present
\* and exactly the missing values make the report invalid.
C2_Witness ==
    /\ ValidateCalled
    /\ last.args.required_cols # <<>>
    /\ ~SomeRequiredAbsent(df, last.args.required_cols)
    /\ SomeRequiredHasNull(df, last.args.required_cols)
    /\ last.out.is_valid = FALSE

AllRequiredAbsent(T, R) == \A i \in 1..Len(R) : R[i] \notin T.cols

\* C8 (as stated): validate_data leaves the table as it was, and whenever
\* every required column is absent the report lists all of them, has no
\* missing_values and is invalid.
C8_AllAbsentReport_AsStated ==
    ValidateCalled =>
        /\ df = df0
        /\ AllRequiredAbsent(df, last.args.required_cols) =>
              /\ last.out.missing_columns = last.args.required_cols
              /\ DOMAIN last.out.missing_values = {}
              /\ last.out.is_valid = FALSE

\* C8 (amended): the same, for a non-empty required-column sequence; with no
\* required column at all the report is valid.
C8_AllAbsentReport ==
    ValidateCalled =>
        LET R == last.args.required_cols
        IN  /\ df = df0
            /\ {"missing_columns", "missing_values", "is_valid"}
                   = DOMAIN last.out
            /\ (R # <<>> /\ AllRequiredAbsent(df, R)) =>
                  /\ last.out.missing_columns = R
                  /\ DOMAIN last.out.missing_values = {}
                  /\ last.out.is_valid = FALSE
            /\ R = <<>> => last.out.is_valid

\* C8 witness: two required columns, both absent, on a table with no column.
C8_Witness ==
    /\ ValidateCalled
    /\ Len(last.args.required_cols) = 2
    /\ last.args.required_cols[1] # last.args.required_cols[2]
    /\ df.cols = {}
    /\ Len(last.out.missing_columns) = 2
    /\ last.out.is_valid = FALSE

(***************************************************************************)
(* Claims about display_counts (checked under SpecCounts)                  *)
(***************************************************************************)

CountsCalled == last.op = "display_counts"

\* The rows (by position) whose year, airport and month all equal the
\* arguments of the latest call.
MatchingRows(T) ==
    {i \in 1..Len(T.rows) :
        /\ T.rows[i][year_col] = last.args.year
        /\ T.rows[i][airport_col] = last.args.airport
        /\ T.rows[i][month_col] = last.args.month}

\* The sum of column c over the rows I, missing cells counting for nothing.
RECURSIVE SumOver(_, _, _)
SumOver(T, c, I) ==
    IF I = {} THEN 0
    ELSE LET i == CHOOSE x \in I : TRUE
             v == T.rows[i][c]
         IN  (IF v = NaN THEN 0 ELSE v) + SumOver(T, c, I \ {i})

\* The integer k that the fixed-point sum s truncates to: the one of the
\* same sign with k * Scale the closest multiple of Scale not beyond s.
Truncated(s) ==
    CHOOSE k \in -(4 * MaxRowsC + 4)..(4 * MaxRowsC + 4) :
        IF s >= 0 THEN k >= 0 /\ k * Scale <= s /\ s < (k + 1) * Scale
                  ELSE k <= 0 /\ k * Scale >= s /\ s > (k - 1) * Scale

\* All orderings of the rows of T.
Reorderings(T) ==
    {[cols |-> T.cols, rows |-> [i \in 1..Len(T.rows) |-> T.rows[p[i]]]] :
        p \in {q \in [1..Len(T.rows) -> 1..Len(T.rows)] :
                  \A a, b \in 1..Len(T.rows) : a # b => q[a] # q[b]}}

\* C3: the counts are the integer sums of the cancellation and diversion
\* columns over exactly the rows matching year, airport and month; with no
\* matching row both are 0 and nothing is raised; row order is immaterial.
C3_CountsAreFilteredSums ==
    (CountsCalled /\ {year_col, airport_col, month_col} \subseteq df.cols) =>
        LET M == MatchingRows(df)
        IN  /\ M = {} => last.out = [status |-> "ok", cancelled |-> 0,
                                     diverted |-> 0]
            /\ (M # {} /\ {cancelled_col, diverted_col} \subseteq df.cols) =>
                  /\ last.out.status = "ok"
                  /\ last.out.cancelled
                        = Truncated(SumOver(df, cancelled_col, M))
                  /\ last.out.diverted
                        = Truncated(SumOver(df, diverted_col, M))
            /\ \A T \in Reorderings(df) :
                  display_counts(T, last.args.year, last.args.airport,
                                 last.args.month) = last.out

\* C3 witness: a call that matches one row of two, the other row differing
\* in the month alone and holding other counts.
C3_Witness ==
    /\ CountsCalled
    /\ df.cols = CountCols
    /\ Len(df.rows) = 2
    /\ MatchingRows(df) = {2}
    /\ df.rows[1][year_col] = last.args.year
    /\ df.rows[1][airport_col] = last.args.airport
    /\ df.rows[1][cancelled_col] = -3
    /\ df.rows[2][cancelled_col] = 1
    /\ last.out.status = "ok"

\* C3 witness of the empty case: no row matches, the table lacks the
\* cancellation column, and the call still returns zero counts.
C3_WitnessNoMatch ==
    /\ CountsCalled
    /\ cancelled_col \notin df.cols
    /\ Len(df.rows) = 1
    /\ last.out = [status |-> "ok", cancelled |-> 0, diverted |-> 0]

\* C6 (as stated): the counts are non-negative integers for every table and
\* every filter, whatever the cells of the matching rows hold.
C6_CountsNonNegative_AsStated ==
    (CountsCalled /\ last.out.status = "ok") =>
        /\ last.out.cancelled \in Nat
        /\ last.out.diverted \in Nat

\* The cells of column c in the matching rows are all missing or >= 0.
MatchingCellsNonNegative(T, c) ==
    \A i \in MatchingRows(T) : T.rows[i][c] = NaN \/ T.rows[i][c] >= 0

\* C6 (amended): the counts are integers, and non-negative whenever the
\* cells of the matching rows are non-negative or missing; a count is
\* negative exactly when its column sums to -1 or less over those rows.
C6_CountsNonNegative ==
    (CountsCalled /\ last.out.status = "ok") =>
        /\ last.out.cancelled \in Int
        /\ last.out.diverted \in Int
        /\ MatchingCellsNonNegative(df, cancelled_col)
              => last.out.cancelled >= 0
        /\ MatchingCellsNonNegative(df, diverted_col)
              => last.out.diverted >= 0
        /\ (MatchingRows(df) # {}) =>
              /\ last.out.cancelled < 0
                    <=> SumOver(df, cancelled_col, MatchingRows(df)) <= -Scale
              /\ last.out.diverted < 0
                    <=> SumOver(df, diverted_col, MatchingRows(df)) <= -Scale

\* C6 witness: a matching row with non-negative cells next to a row of
\* another month with negative cells; the counts are not negative.
C6_Witness ==
    /\ CountsCalled
    /\ df.cols = CountCols
    /\ Len(df.rows) = 2
    /\ MatchingRows(df) = {1}
    /\ df.rows[1][cancelled_col] = 1
    /\ df.rows[2][cancelled_col] = -3
    /\ df.rows[2][diverted_col] = -3
    /\ last.out.status = "ok"
    /\ last.out.cancelled >= 0

(***************************************************************************)
(* Claims about prepare_geospatial_data (checked under SpecGeo)            *)
(***************************************************************************)

GeoReturned == last.op = "prepare_geospatial_data" /\ last.out.status = "ok"

\* The distinct non-missing values of the location column of the input.
Locations(T) == {T.rows[i][geo_airport_col] : i \in 1..Len(T.rows)} \ {NaN}

\* The positions of the output rows for location k.
OutRowsOf(k) ==
    {j \in 1..Len(last.out.rows) : last.out.rows[j][geo_airport_col] = k}

\* The positions of the coordinate rows whose join key is k.
CoordRowsOf(k) ==
    {j \in 1..Len(coords_df.rows) : coords_df.rows[j][iata_col] = k}

\* C5 (as stated): for every coordinate table the output has exactly one row
\* per distinct non-missing location of the input.
C5_OneRowPerLocation_AsStated ==
    GeoReturned =>
        /\ Len(last.out.rows) = Cardinality(Locations(df))
        /\ \A k \in Locations(df) : Cardinality(OutRowsOf(k)) = 1

\* No two coordinate rows share a join key.
UniqueJoinKeys ==
    \A a, b \in 1..Len(coords_df.rows) :
        coords_df.rows[a][iata_col] = coords_df.rows[b][iata_col] => a = b

\* C5 (amended): no location is dropped and no other row appears; a location
\* without a coordinate match is kept once with missing coordinate fields;
\* a location with matches has one row per matching coordinate row, so the
\* output has exactly one row per location when the join keys are unique.
C5_OneRowPerLocation ==
    GeoReturned =>
        /\ \A j \in 1..Len(last.out.rows) :
              last.out.rows[j][geo_airport_col] \in Locations(df)
        /\ \A k \in Locations(df) :
              /\ OutRowsOf(k) # {}
              /\ CoordRowsOf(k) = {} =>
                    /\ Cardinality(OutRowsOf(k)) = 1
                    /\ \A j \in OutRowsOf(k) : \A c \in CoordCols :
                          last.out.rows[j][c] = NaN
              /\ CoordRowsOf(k) # {} =>
                    Cardinality(OutRowsOf(k)) = Cardinality(CoordRowsOf(k))
        /\ UniqueJoinKeys =>
              /\ Len(last.out.rows) = Cardinality(Locations(df))
              /\ \A k \in Locations(df) : Cardinality(OutRowsOf(k)) = 1

\* C5 witness: two locations and a row with a missing location; the
\* coordinate table has unique keys and matches only one location.
C5_Witness ==
    /\ GeoReturned
    /\ UniqueJoinKeys
    /\ Len(coords_df.rows) = 1
    /\ Len(df.rows) = 2
    /\ Locations(df) = {1, 2}
    /\ Len(last.out.rows) = 2
    /\ \E j \in 1..2 : last.out.rows[j]["longitude"] = NaN
    /\ \E j \in 1..2 : last.out.rows[j]["longitude"] # NaN

(***************************************************************************)
(* Claims about compute_combo_chart (checked under SpecRank)               *)
(***************************************************************************)

RankCalled == last.op = "compute_combo_chart"
RankReturned == RankCalled /\ last.out.status = "ok"

\* C1: after any sequence of calls the caller's table has the column set
\* and the cells it had before the first call.
C1_TableNeverMutated == df = df0

\* The distinct entity-key tuples of the rows of T, a tuple with a missing
\* component not counting as an entity.
EntityKeys(T, entity) ==
    {k \in {<<T.rows[i][entity_options[entity][2]],
              T.rows[i][entity_options[entity][1]]>> : i \in 1..Len(T.rows)} :
        k[1] # NaN /\ k[2] # NaN}

Min(a, b) == IF a < b THEN a ELSE b

\* C4: the ranked table has exactly min(top_n, number of distinct entity-key
\* tuples) rows, top_n being the caller's choice, and a table without rows
\* gives an empty ranked table.
C4_RowCountIsMinTopN ==
    /\ RankReturned =>
          Len(last.out.rows)
             = Min(last.args.top_n,
                   Cardinality(EntityKeys(df0, last.args.entity)))
    /\ (RankCalled /\ ncalls = 1 /\ df0.rows = <<>>
        /\ Range(last.args.delay_factors) \subseteq df0.cols
        /\ Range(entity_options[last.args.entity]) \subseteq df0.cols) =>
          last.out = [status |-> "ok", rows |-> <<>>]

\* The columns the latest call names that the table lacked before it.
AbsentNamed ==
    {c \in Range(entity_options[last.args.entity])
           \cup Range(last.args.delay_factors) : c \notin df0.cols}

\* C7: a first call naming an absent entity-key or delay-cause column fails
\* with an error naming absent columns, returns no table, and leaves the
\* caller's table as it was.
C7_MissingColumnFailsCleanly ==
    (RankCalled /\ ncalls = 1 /\ AbsentNamed # {}) =>
        /\ last.out.status = "KeyError"
        /\ last.out.missing # <<>>
        /\ Range(last.out.missing) \subseteq AbsentNamed
        /\ df = df0

\* C9: the ranked rows are in descending total_delay order, rows of equal
\* total_delay in ascending group-key order, and they are the first rows of
\* that ordering of all the groups.
C9_SortedDescendingStable ==
    RankReturned =>
        LET rows == last.out.rows
            code_col == entity_options[last.args.entity][2]
            name_col == entity_options[last.args.entity][1]
            Before(a, b) ==
                \/ a["total_delay"] > b["total_delay"]
                \/ /\ a["total_delay"] = b["total_delay"]
                   /\ \/ a[code_col] < b[code_col]
                      \/ a[code_col] = b[code_col] /\ a[name_col] < b[name_col]
            all == groupby_keys_sum(df, code_col, name_col)
        IN  /\ \A i, j \in 1..Len(rows) : i < j => Before(rows[i], rows[j])
            /\ \A g \in 1..Len(all) :
                  (\A i \in 1..Len(rows) : rows[i] # all[g]) =>
                      \A i \in 1..Len(rows) : Before(rows[i], all[g])

\* C10: a call with the arguments of the call before it returns what that
\* call returned.
C10_RerunIdentical ==
    (RankCalled /\ prev.op = "compute_combo_chart" /\ prev.args = last.args) =>
        last.out = prev.out

====
